---- MODULE Spec2Model ----
(***************************************************************************)
(* The Dutch card game: one room, its players' clients (the React hooks    *)
(* useGameRoom / useGameState and the GameRoom page) and the two edge      *)
(* functions game-action and get-game-state, over the tables rooms,        *)
(* room_players, game_state and game_actions.                              *)
(*                                                                         *)
(* A handler is cut at its database writes: the reads that precede a write *)
(* are one atomic step, every write is a step of its own, and steps of     *)
(* different requests and clients interleave freely.  A log insert         *)
(* (game_actions) is folded into the step of the database call that        *)
(* precedes it: nothing in the state machine reads the log.  A client's    *)
(* cached room / game state is refreshed by fetchRoom / fetchGameState at  *)
(* any later time (the realtime notification is asynchronous), so a client *)
(* may act on a stale cache.                                               *)
(*                                                                         *)
(* Cards are opaque tokens 1..NumCards: no handler looks inside a card.    *)
(* Hand indices are 1-based here (the source's index i is i+1).            *)
(*                                                                         *)
(* The row-level policies are read as the hooks rely on them: a room       *)
(* member's update of rooms and game_state takes effect, and rooms_public  *)
(* is readable by every client.  The players list of useGameRoom is read   *)
(* from room_players when a hook uses it.                                  *)
(*                                                                         *)
(* Spec is the whole program from the lobby on.  ServerSpec is game-action *)
(* alone, called with any body by any member; DealSpec is the deal alone,  *)
(* with the pack of 52 cards and a shuffle.                                *)
(***************************************************************************)
EXTENDS Integers, Sequences, FiniteSets, Bags, TLC

\* ---- bounds of the model ------------------------------------------------
\* players beyond the minimum of MinPlayers
ExtraPlayers == 0
\* cards left in the deck after the deal (the program: 52 - 4n - 1)
DeckRest == 1
\* game-action requests that can be in flight at the same time
MaxInFlight == 2
\* the players make this many gestures (a click on ready, start, leave, the
\* deck, the discard pile, a hand card, Descartar or Dutch)
MaxClicks == 6
\* the hand positions a player clicks on are the first MaxHandIndex ones
MaxHandIndex == 1
\* calls of game-action made in a run of ServerSpec
MaxPosts == 3
\* the shuffles of DealSpec are the runs of Math.random numbered 0..MaxSeed
MaxSeed == 24
\* cards drawn in a run of TimerSpec
MaxDraws == 2
\* the gestures made in a run of LogSpec
MaxLogClicks == 3
\* the log of a game under way holds up to ActionsLimit + MaxLogExtra rows
MaxLogExtra == 2

\* ---- program constants --------------------------------------------------
MinPlayers == 2
\* fetchActions reads this many rows
ActionsLimit == 50
HandSize == 4
NoPlayer == 0
NoCard == 0
MaxRoomPlayers == 6

NumPlayers == MinPlayers + ExtraPlayers
Players == 1..NumPlayers
\* the room's creator: inserted into room_players at position 0
Host == NoPlayer + 1
NumCards == NumPlayers * HandSize + 1 + DeckRest

\* ---- helpers ------------------------------------------------------------
Null == {}
Some(x) == {x}

Range(s) == {s[i] : i \in DOMAIN s}
\* Array.prototype.findIndex, 1-based; 0 when absent (the source's -1)
findIndex(s, x) == IF x \in Range(s) THEN CHOOSE i \in DOMAIN s : s[i] = x ELSE 0
\* arr.slice(0, -1)
Front(s) == IF Len(s) = 0 THEN <<>> ELSE SubSeq(s, 1, Len(s) - 1)
\* arr[arr.length - 1]
Last(s) == s[Len(s)]
\* arr.filter(x => x !== p), order kept
Without(s, p) == SelectSeq(s, LAMBDA x : x # p)
RECURSIVE SumLen(_, _)
SumLen(f, S) ==
  IF S = {} THEN 0
  ELSE LET x == CHOOSE y \in S : TRUE IN Len(f[x]) + SumLen(f, S \ {x})

PhaseRank(ph) ==
  CASE ph = "memorizing" -> 1
    [] ph = "playing" -> 2
    [] ph = "dutch_round" -> 3
    [] ph = "finished" -> 4
    [] OTHER -> 0

VARIABLES
  rooms,          \* the room's row: status, current_turn, dutch_caller
  room_players,   \* player ids of the room's room_players rows, by position
  is_ready,       \* room_players.is_ready, per player
  game_state,     \* the room's game_state row (exists = FALSE: no row)
  game_actions,   \* the action log, oldest first
  reqs,           \* the bag of game-action requests in flight
  room,           \* per client: useGameRoom's room (RoomData)
  gameState,      \* per client: useGameState's gameState, as far as the hooks read it
  drawnCard,      \* per client: useGameState's drawnCard
  response,       \* the reply game-action sent in the step just taken, if any
  dutchPc,        \* per client: where its callDutch stands
  memorizeTimer,  \* the host's memorizing countdown is running
  clicks          \* the gestures made so far

vars == <<rooms, room_players, is_ready, game_state, game_actions, reqs,
          room, gameState, drawnCard, response, dutchPc, memorizeTimer, clicks>>

db == <<rooms, room_players, is_ready, game_state>>
clients == <<room, gameState, drawnCard, dutchPc, memorizeTimer>>
\* no reply is sent by a step that is not a return of game-action
NoResponse == "none"
Quiet == response' = NoResponse

NoGameState ==
  [exists |-> FALSE, phase |-> "none", deck |-> <<>>, discard_pile |-> <<>>,
   player_hands |-> <<>>, revealed_cards |-> <<>>]

NoDrawn == [card |-> NoCard, source |-> "none"]

\* a request as it arrives at game-action: the body fields the client sent,
\* and the handler's locals, not yet assigned
Request(p, action, source, hand_index, drawn) ==
  [pc |-> "guard", player |-> p, action |-> action, source |-> source,
   hand_index |-> hand_index, drawn_card |-> drawn.card, drawn_source |-> drawn.source,
   newDeck |-> <<>>, newDiscardPile |-> <<>>, newPlayerHands |-> <<>>,
   nextPlayer |-> NoPlayer]

InFlight == BagToSet(reqs)
Send(r) == reqs (+) SetToBag({r})
Remove(r) == reqs (-) SetToBag({r})
Replace(r, r2) == (reqs (-) SetToBag({r})) (+) SetToBag({r2})

\* ---- the view filter: get-game-state -------------------------------------
\* a filter that hands every player's cards to the caller
unfilteredPlayerHands(user, playerHands) ==
  [playerId \in DOMAIN playerHands |->
     [cards |-> Some(playerHands[playerId]),
      cardCount |-> Len(playerHands[playerId])]]

\* filteredPlayerHands: the caller's own cards, every other hand as a count
filteredPlayerHands(user, playerHands) ==
  [playerId \in DOMAIN playerHands |->
     IF playerId = user
       THEN [cards |-> Some(playerHands[playerId]),
             cardCount |-> Len(playerHands[playerId])]
       ELSE [cards |-> Null, cardCount |-> Len(playerHands[playerId])]]

\* a filter that hands out the caller's own entry in every phase
filteredRevealedCardsAnyPhase(user, gs) ==
  IF user \in DOMAIN gs.revealed_cards
    THEN [p \in {user} |-> gs.revealed_cards[user]]
    ELSE <<>>

\* filteredRevealedCards: the caller's own entry, while memorizing
filteredRevealedCards(user, gs) ==
  IF gs.phase = "memorizing" /\ user \in DOMAIN gs.revealed_cards
    THEN [p \in {user} |-> gs.revealed_cards[user]]
    ELSE <<>>

\* a view that hands out the card on top of the deck in place of its length
safeGameStateDeckTop(user, gs) ==
  IF ~gs.exists
    THEN [exists |-> FALSE, phase |-> "none", deck_count |-> 0, discard_pile |-> <<>>,
          player_hands |-> <<>>, revealed_cards |-> <<>>]
    ELSE [exists |-> TRUE, phase |-> gs.phase,
          deck_count |-> IF Len(gs.deck) = 0 THEN 0 ELSE Last(gs.deck),
          discard_pile |-> gs.discard_pile,
          player_hands |-> filteredPlayerHands(user, gs.player_hands),
          revealed_cards |-> filteredRevealedCards(user, gs)]

\* safeGameState, the data of the response (exists = FALSE: data is null)
safeGameState(user, gs) ==
  IF ~gs.exists
    THEN [exists |-> FALSE, phase |-> "none", deck_count |-> 0, discard_pile |-> <<>>,
          player_hands |-> <<>>, revealed_cards |-> <<>>]
    ELSE [exists |-> TRUE, phase |-> gs.phase, deck_count |-> Len(gs.deck),
          discard_pile |-> gs.discard_pile,
          player_hands |-> filteredPlayerHands(user, gs.player_hands),
          revealed_cards |-> filteredRevealedCards(user, gs)]

\* ---- the clients' caches ---------------------------------------------------
\* what fetchRoom stores from rooms_public
RoomData(r) ==
  [status |-> r.status, currentTurn |-> r.current_turn, dutchCaller |-> r.dutch_caller]

NoView == [exists |-> FALSE, phase |-> "none", deckCount |-> 0,
           discardTop |-> NoCard, handCount |-> 0]

\* what fetchGameState stores from the response, kept to the fields the hooks
\* and click handlers read: phase, deckCount, the last card of discardPile and
\* the length of myHand (the rest is only displayed)
GameStateData(user, secureState) ==
  IF ~secureState.exists THEN NoView
  ELSE [exists |-> TRUE,
        phase |-> secureState.phase,
        deckCount |-> secureState.deck_count,
        discardTop |-> IF Len(secureState.discard_pile) = 0 THEN NoCard
                       ELSE Last(secureState.discard_pile),
        handCount |-> IF user \in DOMAIN secureState.player_hands
                        THEN secureState.player_hands[user].cardCount ELSE 0]

InRoom(p) == p \in Range(room_players)
isMyTurn(p) == room[p].currentTurn = p
isHost(p) == p = Host
\* the game board is rendered
GameBoard(p) == room[p].status = "playing" /\ gameState[p].exists
CanStart == clicks < MaxClicks

Init ==
  /\ rooms = [status |-> "waiting", current_turn |-> NoPlayer, dutch_caller |-> NoPlayer]
  /\ room_players = [i \in 1..NumPlayers |-> i]
  /\ is_ready = [p \in Players |-> FALSE]
  /\ game_state = NoGameState
  /\ game_actions = <<>>
  /\ reqs = EmptyBag
  /\ room = [p \in Players |-> RoomData(rooms)]
  /\ gameState = [p \in Players |-> NoView]
  /\ drawnCard = [p \in Players |-> NoDrawn]
  /\ response = NoResponse
  /\ dutchPc = [p \in Players |-> "idle"]
  /\ memorizeTimer = FALSE
  /\ clicks = 0

\* ---- useGameRoom ----------------------------------------------------------
fetchRoom(p) ==
  /\ InRoom(p)
  /\ room[p] # RoomData(rooms)
  /\ room' = [room EXCEPT ![p] = RoomData(rooms)]
  /\ Quiet
  /\ UNCHANGED <<clicks, db, game_actions, reqs, gameState, drawnCard, dutchPc, memorizeTimer>>

toggleReady(p) ==
  /\ InRoom(p)
  /\ ~isHost(p)
  /\ room[p].status = "waiting"
  /\ is_ready' = [is_ready EXCEPT ![p] = ~is_ready[p]]
  /\ Quiet
  /\ CanStart
  /\ clicks' = clicks + 1
  /\ UNCHANGED <<rooms, room_players, game_state, game_actions, reqs, clients>>

\* the page is left: the client's hooks are unmounted with their state
leaveRoom(p) ==
  /\ InRoom(p)
  /\ room_players' = Without(room_players, p)
  /\ room' = [room EXCEPT ![p] = RoomData([status |-> "waiting", current_turn |-> NoPlayer, dutch_caller |-> NoPlayer])]
  /\ gameState' = [gameState EXCEPT ![p] = NoView]
  /\ drawnCard' = [drawnCard EXCEPT ![p] = NoDrawn]
  /\ memorizeTimer' = IF isHost(p) THEN FALSE ELSE memorizeTimer
  /\ Quiet
  /\ CanStart
  /\ clicks' = clicks + 1
  /\ UNCHANGED <<rooms, is_ready, game_state, game_actions, reqs, dutchPc>>

startGame(p) ==
  /\ InRoom(p)
  /\ isHost(p)
  /\ room[p].status = "waiting"
  /\ \A i \in DOMAIN room_players :
       is_ready[room_players[i]] \/ room_players[i] = Host
  /\ Len(room_players) >= MinPlayers
  /\ rooms' = [rooms EXCEPT !.status = "playing", !.current_turn = room_players[1]]
  /\ Quiet
  /\ CanStart
  /\ clicks' = clicks + 1
  /\ UNCHANGED <<room_players, is_ready, game_state, game_actions, reqs, clients>>

\* ---- useGameState: reads and the host's duties ----------------------------
\* createDeck: one outcome of the shuffle (cards are opaque tokens)
createDeck == [i \in 1..NumCards |-> i]
\* deck.slice(from, to) of the source, with 0-based bounds
slice(deck, from, to) ==
  IF to <= from THEN <<>> ELSE SubSeq(deck, from + 1, IF to > Len(deck) THEN Len(deck) ELSE to)

\* the row initializeGame upserts for the players in position order
dealtGameState(deck, players) ==
  [exists |-> TRUE,
   phase |-> "memorizing",
   deck |-> slice(deck, HandSize * Len(players) + 1, Len(deck)),
   discard_pile |-> <<deck[HandSize * Len(players) + 1]>>,
   player_hands |-> [p \in Range(players) |->
      slice(deck, HandSize * (findIndex(players, p) - 1), HandSize * findIndex(players, p))],
   revealed_cards |-> [p \in Range(players) |-> <<0, 3>>]]

\* fetchGameState through the get-game-state edge function
fetchGameState(p) ==
  /\ InRoom(p)
  /\ gameState[p] # GameStateData(p, safeGameState(p, game_state))
  /\ gameState' = [gameState EXCEPT ![p] = GameStateData(p, safeGameState(p, game_state))]
  /\ memorizeTimer' = IF isHost(p) THEN game_state.phase = "memorizing" ELSE memorizeTimer
  /\ Quiet
  /\ UNCHANGED <<clicks, db, game_actions, reqs, room, drawnCard, dutchPc>>

\* an initializeGame whose upsert replaces the row the room has
initializeGameWithOverwrite(p, deck) ==
  /\ InRoom(p)
  /\ isHost(p)
  /\ room[p].status = "playing"
  /\ ~gameState[p].exists
  /\ IF Len(room_players) < MinPlayers
       THEN game_state' = game_state /\ response' = "returned"
     ELSE game_state' = dealtGameState(deck, room_players) /\ Quiet
  /\ UNCHANGED <<clicks, rooms, room_players, is_ready, game_actions, reqs, clients>>

\* the game-start effect of the host calls initializeGame, deck being what
\* createDeck() returned: it returns at once with fewer than MinPlayers
\* players, and an upsert for a room that has its row fails on the unique
\* room_id (the error toast)
initializeGameWith(p, deck) ==
  /\ InRoom(p)
  /\ isHost(p)
  /\ room[p].status = "playing"
  /\ ~gameState[p].exists
  /\ IF Len(room_players) < MinPlayers
       THEN game_state' = game_state /\ response' = "returned"
     ELSE IF game_state.exists
       THEN game_state' = game_state /\ response' = "toast_error"
     ELSE game_state' = dealtGameState(deck, room_players) /\ Quiet
  /\ UNCHANGED <<clicks, rooms, room_players, is_ready, game_actions, reqs, clients>>

initializeGame(p) == initializeGameWith(p, createDeck)

\* an endMemorizingPhase that leaves revealed_cards as they are
endMemorizingPhaseKeepsRevealed(p) ==
  /\ InRoom(p)
  /\ isHost(p)
  /\ memorizeTimer
  /\ gameState[p].exists
  /\ memorizeTimer' = FALSE
  /\ game_state' = IF game_state.exists
                     THEN [game_state EXCEPT !.phase = "playing"]
                     ELSE game_state
  /\ Quiet
  /\ UNCHANGED <<clicks, rooms, room_players, is_ready, game_actions, reqs,
                 room, gameState, drawnCard, dutchPc>>

\* the host's countdown runs out
endMemorizingPhase(p) ==
  /\ InRoom(p)
  /\ isHost(p)
  /\ memorizeTimer
  /\ gameState[p].exists
  /\ memorizeTimer' = FALSE
  /\ game_state' = IF game_state.exists
                     THEN [game_state EXCEPT !.phase = "playing", !.revealed_cards = <<>>]
                     ELSE game_state
  /\ Quiet
  /\ UNCHANGED <<clicks, rooms, room_players, is_ready, game_actions, reqs,
                 room, gameState, drawnCard, dutchPc>>

\* ---- useGameState / GameRoom: the player's actions -------------------------
HasFreeSlot == BagCardinality(reqs) < MaxInFlight

\* a row of game_actions: player_id, action_type and, for a draw, the source
\* of its action_data ("none": the row has no action_data)
LogEntry(p, type) == [player_id |-> p, action_type |-> type, source |-> "none"]
LogDraw(p, source) == [player_id |-> p, action_type |-> "draw", source |-> source]

\* handleDeckClick / handleDiscardClick / handleCardClick let a click through
CanClick(p) ==
  /\ InRoom(p)
  /\ GameBoard(p)
  /\ isMyTurn(p)
  /\ gameState[p].phase = "playing"

\* drawCard('deck'): a draw request to game-action
drawCardDeck(p) ==
  /\ CanClick(p)
  /\ drawnCard[p] = NoDrawn
  /\ gameState[p].deckCount # 0
  /\ CanStart /\ HasFreeSlot
  /\ reqs' = Send(Request(p, "draw", "deck", 0, NoDrawn))
  /\ Quiet
  /\ clicks' = clicks + 1
  /\ UNCHANGED <<db, game_actions, clients>>

\* drawCard('discard'): the top of the cached discard pile, taken locally
drawCardDiscard(p) ==
  /\ CanClick(p)
  /\ drawnCard[p] = NoDrawn
  /\ gameState[p].discardTop # NoCard
  /\ CanStart
  /\ drawnCard' = [drawnCard EXCEPT ![p] =
       [card |-> gameState[p].discardTop, source |-> "discard"]]
  /\ game_actions' = Append(game_actions, LogDraw(p, "discard"))
  /\ Quiet
  /\ clicks' = clicks + 1
  /\ UNCHANGED <<db, reqs, room, gameState, dutchPc, memorizeTimer>>

\* handleCardClick with a drawn card: swapWithHand(handIndex)
swapWithHand(p, handIndex) ==
  /\ CanClick(p)
  /\ drawnCard[p] # NoDrawn
  /\ handIndex \in 1..gameState[p].handCount
  /\ CanStart /\ HasFreeSlot
  /\ reqs' = Send(Request(p, "swap", "none", handIndex, drawnCard[p]))
  /\ Quiet
  /\ clicks' = clicks + 1
  /\ UNCHANGED <<db, game_actions, clients>>

\* the Descartar button, handleDiscardClick with a drawn card, or the turn
\* timer running out: discardDrawnCard()
discardDrawnCard(p) ==
  /\ InRoom(p)
  /\ GameBoard(p)
  /\ drawnCard[p] # NoDrawn
  /\ CanStart /\ HasFreeSlot
  /\ reqs' = Send(Request(p, "discard", "none", 0, drawnCard[p]))
  /\ Quiet
  /\ clicks' = clicks + 1
  /\ UNCHANGED <<db, game_actions, clients>>

\* the Dutch button (shown while the cached room has no dutchCaller) and the
\* first update of callDutch: rooms.dutch_caller
callDutch(p) ==
  /\ CanClick(p)
  /\ drawnCard[p] = NoDrawn
  /\ room[p].dutchCaller = NoPlayer
  /\ dutchPc[p] = "idle"
  /\ CanStart
  /\ rooms' = [rooms EXCEPT !.dutch_caller = p]
  /\ dutchPc' = [dutchPc EXCEPT ![p] = "phase"]
  /\ Quiet
  /\ clicks' = clicks + 1
  /\ UNCHANGED <<room_players, is_ready, game_state, game_actions, reqs,
                 room, gameState, drawnCard, memorizeTimer>>

\* the second update of callDutch: game_state.phase, then the log entry
callDutchPhase(p) ==
  /\ dutchPc[p] = "phase"
  /\ game_state' = IF game_state.exists
                     THEN [game_state EXCEPT !.phase = "dutch_round"]
                     ELSE game_state
  /\ game_actions' = Append(game_actions, LogEntry(p, "dutch"))
  /\ dutchPc' = [dutchPc EXCEPT ![p] = "idle"]
  /\ Quiet
  /\ UNCHANGED <<clicks, rooms, room_players, is_ready, reqs,
                 room, gameState, drawnCard, memorizeTimer>>

\* ---- the game-action edge function ----------------------------------------
\* the handler returns: the request is over and the client's continuation
\* after the await runs (when its hooks are still mounted)
Return(r, result, drawn) ==
  /\ reqs' = Remove(r)
  /\ response' = result
  /\ drawnCard' = [drawnCard EXCEPT ![r.player] =
       IF InRoom(r.player) /\ result = "success" THEN drawn ELSE drawnCard[r.player]]

\* the checks without the status check
GuardVerdictAnyStatus(user) ==
  IF ~InRoom(user) THEN "not_a_member"
  ELSE IF rooms.current_turn # user THEN "not_your_turn"
  ELSE "pass"

\* the checks without the turn check
GuardVerdictAnyTurn(user) ==
  IF ~InRoom(user) THEN "not_a_member"
  ELSE IF rooms.status # "playing" THEN "not_playing"
  ELSE "pass"

\* the checks with a status check that refuses a waiting room only
GuardVerdictFinishedPasses(user) ==
  IF ~InRoom(user) THEN "not_a_member"
  ELSE IF rooms.current_turn # user THEN "not_your_turn"
  ELSE IF rooms.status = "waiting" THEN "not_playing"
  ELSE "pass"

\* the reply to the membership, turn and status checks
GuardVerdict(user) ==
  IF ~InRoom(user) THEN "not_a_member"
  ELSE IF rooms.current_turn # user THEN "not_your_turn"
  ELSE IF rooms.status # "playing" THEN "not_playing"
  ELSE "pass"

\* a swap that puts the drawn card on the discard pile, not the card it
\* displaces
SwapUpdateDiscardsDrawn(gs, user, hand_index, drawn_card, drawn_source) ==
  LET myHandRow == gs.player_hands[user]
      newHand == [myHandRow EXCEPT ![hand_index] = drawn_card]
  IN [newPlayerHands |-> [gs.player_hands EXCEPT ![user] = newHand],
      newDeck |-> IF drawn_source = "deck" THEN Front(gs.deck) ELSE gs.deck,
      newDiscardPile |->
        IF drawn_source = "deck"
          THEN Append(gs.discard_pile, drawn_card)
          ELSE Append(Front(gs.discard_pile), drawn_card)]

\* a swap that adds the drawn card to the hand and keeps the card at the index
SwapUpdateKeepsCard(gs, user, hand_index, drawn_card, drawn_source) ==
  LET myHandRow == gs.player_hands[user]
      swappedCard == myHandRow[hand_index]
      newHand == Append(myHandRow, drawn_card)
  IN [newPlayerHands |-> [gs.player_hands EXCEPT ![user] = newHand],
      newDeck |-> IF drawn_source = "deck" THEN Front(gs.deck) ELSE gs.deck,
      newDiscardPile |->
        IF drawn_source = "deck"
          THEN Append(gs.discard_pile, swappedCard)
          ELSE Append(Front(gs.discard_pile), swappedCard)]

\* case 'swap': the new hands, deck and discard pile, from the fetched row
SwapUpdate(gs, user, hand_index, drawn_card, drawn_source) ==
  LET myHandRow == gs.player_hands[user]
      swappedCard == myHandRow[hand_index]
      newHand == [myHandRow EXCEPT ![hand_index] = drawn_card]
  IN [newPlayerHands |-> [gs.player_hands EXCEPT ![user] = newHand],
      newDeck |-> IF drawn_source = "deck" THEN Front(gs.deck) ELSE gs.deck,
      newDiscardPile |->
        IF drawn_source = "deck"
          THEN Append(gs.discard_pile, swappedCard)
          ELSE Append(Front(gs.discard_pile), swappedCard)]

\* a discard that leaves the drawn card's copy on the deck
DiscardUpdateKeepsDeck(gs, drawn_card, drawn_source) ==
  [newPlayerHands |-> <<>>,
   newDeck |-> gs.deck,
   newDiscardPile |->
     IF drawn_source = "deck" THEN Append(gs.discard_pile, drawn_card)
     ELSE gs.discard_pile]

\* a discard that puts the drawn card on the discard pile whatever its source
DiscardUpdatePushesDrawn(gs, drawn_card, drawn_source) ==
  [newPlayerHands |-> <<>>,
   newDeck |-> IF drawn_source = "deck" THEN Front(gs.deck) ELSE gs.deck,
   newDiscardPile |-> Append(gs.discard_pile, drawn_card)]

\* case 'discard': the new deck and discard pile, from the fetched row
DiscardUpdate(gs, drawn_card, drawn_source) ==
  [newPlayerHands |-> <<>>,
   newDeck |-> IF drawn_source = "deck" THEN Front(gs.deck) ELSE gs.deck,
   newDiscardPile |->
     IF drawn_source = "deck" THEN Append(gs.discard_pile, drawn_card)
     ELSE gs.discard_pile]

\* a request is rejected by the membership, turn or status check
GameActionReject(user) ==
  \E r \in InFlight :
    /\ r.player = user
    /\ r.pc = "guard"
    /\ GuardVerdict(r.player) # "pass"
    /\ Return(r, GuardVerdict(r.player), NoDrawn)
    /\ UNCHANGED <<clicks, db, game_actions, room, gameState, dutchPc, memorizeTimer>>

\* case 'draw': the checks pass, the game_state row is fetched and the top of
\* the named pile is returned
GameActionDraw(user) ==
  \E r \in InFlight :
    LET pile == IF r.source = "deck" THEN game_state.deck ELSE game_state.discard_pile
    IN
    /\ r.player = user
    /\ r.pc = "guard"
    /\ GuardVerdict(r.player) = "pass"
    /\ r.action = "draw"
    /\ IF ~game_state.exists
         THEN Return(r, "fetch_failed", NoDrawn) /\ UNCHANGED game_actions
       ELSE IF r.source = "none"
         THEN Return(r, "source_required", NoDrawn) /\ UNCHANGED game_actions
       ELSE IF Len(pile) = 0
         THEN Return(r, "pile_empty", NoDrawn) /\ UNCHANGED game_actions
       ELSE /\ Return(r, "success", [card |-> Last(pile), source |-> r.source])
            /\ game_actions' = Append(game_actions, LogDraw(r.player, r.source))
    /\ UNCHANGED <<clicks, db, room, gameState, dutchPc, memorizeTimer>>

\* case 'swap' / 'discard': the checks pass, the game_state row is fetched and
\* the update is computed from it
GameActionFetch(user) ==
  \E r \in InFlight :
    LET handLen == IF r.player \in DOMAIN game_state.player_hands
                     THEN Len(game_state.player_hands[r.player]) ELSE 0
        upd == IF r.action = "swap"
                 THEN SwapUpdate(game_state, r.player, r.hand_index, r.drawn_card, r.drawn_source)
                 ELSE DiscardUpdate(game_state, r.drawn_card, r.drawn_source)
    IN
    /\ r.player = user
    /\ r.pc = "guard"
    /\ GuardVerdict(r.player) = "pass"
    /\ r.action \in {"swap", "discard"}
    /\ IF ~game_state.exists
         THEN Return(r, "fetch_failed", NoDrawn)
       ELSE IF r.action = "swap" /\ r.hand_index < 1
         THEN Return(r, "hand_index_required", NoDrawn)
       ELSE IF r.drawn_card = NoCard \/ r.drawn_source = "none"
         THEN Return(r, "drawn_card_required", NoDrawn)
       ELSE IF r.action = "swap" /\ r.hand_index > handLen
         THEN Return(r, "invalid_hand_index", NoDrawn)
       ELSE /\ reqs' = Replace(r, [r EXCEPT !.pc = "update",
                                            !.newDeck = upd.newDeck,
                                            !.newDiscardPile = upd.newDiscardPile,
                                            !.newPlayerHands = upd.newPlayerHands])
            /\ Quiet /\ UNCHANGED drawnCard
    /\ UNCHANGED <<clicks, db, game_actions, room, gameState, dutchPc, memorizeTimer>>

\* the update of game_state, then the log entry
GameActionUpdate(user) ==
  \E r \in InFlight :
    /\ r.player = user
    /\ r.pc = "update"
    /\ game_state' =
         IF ~game_state.exists THEN game_state
         ELSE IF r.action = "swap"
           THEN [game_state EXCEPT !.deck = r.newDeck,
                                   !.discard_pile = r.newDiscardPile,
                                   !.player_hands = r.newPlayerHands]
           ELSE [game_state EXCEPT !.deck = r.newDeck,
                                   !.discard_pile = r.newDiscardPile]
    /\ game_actions' = Append(game_actions, LogEntry(r.player, r.action))
    /\ reqs' = Replace(r, [r EXCEPT !.pc = "advance",
                                    !.newDeck = <<>>,
                                    !.newDiscardPile = <<>>,
                                    !.newPlayerHands = <<>>])
    /\ Quiet
    /\ UNCHANGED <<clicks, rooms, room_players, is_ready, clients>>

\* the player after current_turn in the fetched player list
nextPlayerOf(playerList, current_turn) ==
  playerList[(findIndex(playerList, current_turn) % Len(playerList)) + 1]

\* the Dutch round is complete
DutchRoundComplete(roomData, next) ==
  roomData.dutch_caller # NoPlayer /\ next = roomData.dutch_caller

\* advanceTurn: the room and its players are read, the next player computed
AdvanceTurnRead(user) ==
  \E r \in InFlight :
    /\ r.player = user
    /\ r.pc = "advance"
    /\ IF Len(room_players) = 0
         THEN Return(r, "success", NoDrawn)
         ELSE /\ reqs' = Replace(r, [r EXCEPT
                   !.pc = IF DutchRoundComplete(rooms,
                                 nextPlayerOf(room_players, rooms.current_turn))
                            THEN "end_game_state" ELSE "adv_turn",
                   !.nextPlayer = nextPlayerOf(room_players, rooms.current_turn)])
              /\ Quiet /\ UNCHANGED drawnCard
    /\ UNCHANGED <<clicks, db, game_actions, room, gameState, dutchPc, memorizeTimer>>

\* advanceTurn, end of game: game_state.phase
AdvanceTurnEndGameState(user) ==
  \E r \in InFlight :
    /\ r.player = user
    /\ r.pc = "end_game_state"
    /\ game_state' = IF game_state.exists
                       THEN [game_state EXCEPT !.phase = "finished"]
                       ELSE game_state
    /\ reqs' = Replace(r, [r EXCEPT !.pc = "end_room"])
    /\ Quiet
    /\ UNCHANGED <<clicks, rooms, room_players, is_ready, game_actions, clients>>

\* advanceTurn, end of game: rooms.status; the handler returns
AdvanceTurnEndRoom(user) ==
  \E r \in InFlight :
    /\ r.player = user
    /\ r.pc = "end_room"
    /\ rooms' = [rooms EXCEPT !.status = "finished"]
    /\ Return(r, "success", NoDrawn)
    /\ UNCHANGED <<clicks, room_players, is_ready, game_state, game_actions,
                   room, gameState, dutchPc, memorizeTimer>>

\* advanceTurn: rooms.current_turn; the handler returns
AdvanceTurnWrite(user) ==
  \E r \in InFlight :
    /\ r.player = user
    /\ r.pc = "adv_turn"
    /\ rooms' = [rooms EXCEPT !.current_turn = r.nextPlayer]
    /\ Return(r, "success", NoDrawn)
    /\ UNCHANGED <<clicks, room_players, is_ready, game_state, game_actions,
                   room, gameState, dutchPc, memorizeTimer>>

Next ==
  \/ \E p \in Players : fetchRoom(p)
  \/ \E p \in Players : toggleReady(p)
  \/ \E p \in Players : leaveRoom(p)
  \/ \E p \in Players : startGame(p)
  \/ \E p \in Players : fetchGameState(p)
  \/ \E p \in Players : initializeGame(p)
  \/ \E p \in Players : endMemorizingPhase(p)
  \/ \E p \in Players : drawCardDeck(p)
  \/ \E p \in Players : drawCardDiscard(p)
  \/ \E p \in Players, i \in 1..MaxHandIndex : swapWithHand(p, i)
  \/ \E p \in Players : discardDrawnCard(p)
  \/ \E p \in Players : callDutch(p)
  \/ \E p \in Players : callDutchPhase(p)
  \/ \E user \in Players : GameActionReject(user)
  \/ \E user \in Players : GameActionDraw(user)
  \/ \E user \in Players : GameActionFetch(user)
  \/ \E user \in Players : GameActionUpdate(user)
  \/ \E user \in Players : AdvanceTurnRead(user)
  \/ \E user \in Players : AdvanceTurnEndGameState(user)
  \/ \E user \in Players : AdvanceTurnEndRoom(user)
  \/ \E user \in Players : AdvanceTurnWrite(user)

Spec == Init /\ [][Next]_vars

\* ---- the deal on its own: the pack of 52 cards, shuffled -----------------------
suits == <<"hearts", "diamonds", "clubs", "spades">>
ranks == <<"A", "2", "3", "4", "5", "6", "7", "8", "9", "10", "J", "Q", "K">>

\* the deck createDeck builds before it shuffles: every rank of every suit, the
\* id `${rank}-${suit}` as the pair of the two
orderedDeck ==
  [k \in 1..(Len(suits) * Len(ranks)) |->
     LET suit == suits[((k - 1) \div Len(ranks)) + 1]
         rank == ranks[((k - 1) % Len(ranks)) + 1]
     IN [suit |-> suit, rank |-> rank, id |-> <<rank, suit>>]]

\* Math.floor(Math.random() * (i + 1)) of the run numbered seed: a value of
\* 0..i (seed 0: always 0; seed 1: always i, the shuffle that moves nothing)
RandomIndex(seed, i) == (seed * (2 * i + 1)) % (i + 1)

\* a loop of shuffleDeck that overwrites shuffled[i] and does not swap
RECURSIVE shuffleLoopNoSwap(_, _, _)
shuffleLoopNoSwap(shuffled, i, seed) ==
  IF i < 1 THEN shuffled
  ELSE LET j == RandomIndex(seed, i)
       IN shuffleLoopNoSwap([shuffled EXCEPT ![i + 1] = shuffled[j + 1]], i - 1, seed)

\* a shuffleDeck that runs that loop
shuffleDeckNoSwap(deck, seed) == shuffleLoopNoSwap(deck, Len(deck) - 1, seed)

\* the loop of shuffleDeck from index i down to 1 (0-based, as in the source)
RECURSIVE shuffleLoop(_, _, _)
shuffleLoop(shuffled, i, seed) ==
  IF i < 1 THEN shuffled
  ELSE LET j == RandomIndex(seed, i)
       IN shuffleLoop([shuffled EXCEPT ![i + 1] = shuffled[j + 1],
                                       ![j + 1] = shuffled[i + 1]], i - 1, seed)

\* a shuffleDeck that shuffles the array it is given, without the copy
shuffleDeckCallInPlace(heap, deck, seed) ==
  [heap |-> [heap EXCEPT ![deck] = shuffleLoop(heap[deck], Len(heap[deck]) - 1, seed)],
   returned |-> deck]

\* shuffleDeck over arrays held by reference (heap[ref] is the contents of the
\* array ref): `[...deck]` makes a new array, the loop swaps inside it, and it
\* is what the call returns
shuffleDeckCall(heap, deck, seed) ==
  LET shuffled == Len(heap) + 1
      copied == Append(heap, heap[deck])
  IN [heap |-> [copied EXCEPT ![shuffled] =
                  shuffleLoop(copied[shuffled], Len(copied[shuffled]) - 1, seed)],
      returned |-> shuffled]

\* shuffleDeck: Fisher-Yates; the contents of the array a call on deck returns
shuffleDeck(deck, seed) ==
  LET call == shuffleDeckCall(<<deck>>, 1, seed)
  IN call.heap[call.returned]

\* initializeGame with a shuffled pack
initializeGameShuffled(p) ==
  \E seed \in 0..MaxSeed : initializeGameWith(p, shuffleDeck(orderedDeck, seed))

\* a started room of one to MaxRoomPlayers players, the host's page showing it
InitDeal ==
  /\ \E n \in 1..MaxRoomPlayers : room_players = [i \in 1..n |-> i]
  /\ rooms = [status |-> "playing", current_turn |-> room_players[1],
              dutch_caller |-> NoPlayer]
  /\ is_ready = [p \in Players |-> ~isHost(p)]
  /\ game_state = NoGameState
  /\ game_actions = <<>>
  /\ reqs = EmptyBag
  /\ room = [p \in Players |-> RoomData(rooms)]
  /\ gameState = [p \in Players |-> NoView]
  /\ drawnCard = [p \in Players |-> NoDrawn]
  /\ response = NoResponse
  /\ dutchPc = [p \in Players |-> "idle"]
  /\ memorizeTimer = FALSE
  /\ clicks = 0

NextDeal ==
  \/ \E p \in Players : initializeGameShuffled(p)
  \/ \E p \in Players : fetchGameState(p)

DealSpec == InitDeal /\ [][NextDeal]_vars

\* ---- the scores ---------------------------------------------------------------
\* the card a token of createDeck stands for: the pack in the order it is built
\* (the shuffle that moves nothing)
cardOf(token) == orderedDeck[token]

\* parseInt(card.rank) for the ranks '2' to '10'
parseInt(rank) == CHOOSE n \in 2..10 : ranks[n] = rank

\* a getCardValue for which every King counts 0
getCardValueKingsZero(card) ==
  IF card.rank = "K" THEN 0
  ELSE IF card.rank = "A" THEN 1
  ELSE IF card.rank = "J" \/ card.rank = "Q" THEN 10
  ELSE parseInt(card.rank)

\* getCardValue
getCardValue(card) ==
  IF card.rank = "K"
    THEN (IF card.suit = "spades" \/ card.suit = "clubs" THEN 0 ELSE -1)
  ELSE IF card.rank = "A" THEN 1
  ELSE IF card.rank = "J" \/ card.rank = "Q" THEN 10
  ELSE parseInt(card.rank)

\* calculateScore: cards.reduce((total, card) => total + getCardValue(card), 0)
RECURSIVE calculateScore(_)
calculateScore(cards) ==
  IF Len(cards) = 0 THEN 0
  ELSE calculateScore(Front(cards)) + getCardValue(Last(cards))

\* gameState.playerScores: the player_scores of the get-game-state response,
\* undefined (no entries) when the response has no such field
playerScores(secureState) ==
  IF "player_scores" \in DOMAIN secureState THEN secureState.player_scores ELSE <<>>

\* the score the finished-game board of viewer shows for player:
\* gameState.playerScores?.[player.id] ?? 0
score(viewer, player) ==
  LET scores == playerScores(safeGameState(viewer, game_state))
  IN IF player \in DOMAIN scores THEN scores[player] ELSE 0

\* the player the board ranks first: the first of players sorted by score,
\* ascending (the sort is stable)
rankedFirst(viewer) ==
  LET i == CHOOSE i \in DOMAIN room_players :
             \A j \in DOMAIN room_players :
               \/ score(viewer, room_players[j]) > score(viewer, room_players[i])
               \/ score(viewer, room_players[j]) = score(viewer, room_players[i]) /\ j >= i
  IN room_players[i]

\* the finished-game board is rendered for viewer
GameFinished(viewer) ==
  /\ InRoom(viewer)
  /\ room[viewer].status = "finished"
  /\ gameState[viewer].exists
  /\ gameState[viewer].phase = "finished"

\* ---- game-action on its own: any member calls the endpoint ------------------
\* The function is an HTTP endpoint: a member's token and a JSON body are all a
\* call needs, whatever the page shows.  ServerSpec runs the handler against
\* the stored states a call can meet, with bodies drawn from small sets.

\* the drawn_card / drawn_source of a body: absent, or the top of either pile
\* as dealt
PostDrawn ==
  {NoDrawn,
   [card |-> Last(createDeck), source |-> "deck"],
   [card |-> createDeck[HandSize * NumPlayers + 1], source |-> "discard"]}

\* the hand_index of a swap body: a position clicked on, or one past the hand
PostHandIndex == (1..MaxHandIndex) \cup {HandSize + 1}

\* a call with the body {room_id, action, source, hand_index, drawn_card,
\* drawn_source} arrives
postGameAction(user, action, source, hand_index, drawn) ==
  /\ clicks < MaxPosts
  /\ HasFreeSlot
  /\ action = "draw" => source # "none" /\ hand_index = 0 /\ drawn = NoDrawn
  /\ action = "swap" => source = "none" /\ hand_index # 0
  /\ action = "discard" => source = "none" /\ hand_index = 0
  /\ reqs' = Send(Request(user, action, source, hand_index, drawn))
  /\ Quiet
  /\ clicks' = clicks + 1
  /\ UNCHANGED <<db, game_actions, clients>>

\* the room as a call can find it: in the lobby, or started with the cards as
\* dealt, in the memorizing phase, in play, or in the Dutch round of a caller
\* (a player who takes the top of the discard pile and discards it passes the
\* turn and leaves the cards as they were)
InitServer ==
  /\ room_players = [i \in 1..NumPlayers |-> i]
  /\ is_ready = [p \in Players |-> ~isHost(p)]
  /\ \E turn \in Players, caller \in Players \cup {NoPlayer},
        phase \in {"none", "memorizing", "playing", "dutch_round"} :
       /\ phase \in {"none", "memorizing"} => turn = Host
       /\ caller # NoPlayer <=> phase = "dutch_round"
       /\ rooms = IF phase = "none"
                    THEN [status |-> "waiting", current_turn |-> NoPlayer,
                          dutch_caller |-> NoPlayer]
                    ELSE [status |-> "playing", current_turn |-> turn,
                          dutch_caller |-> caller]
       /\ game_state =
            IF phase = "none" THEN NoGameState
            ELSE [dealtGameState(createDeck, room_players) EXCEPT
                    !.phase = phase,
                    !.revealed_cards = IF phase = "memorizing" THEN @ ELSE <<>>]
  /\ game_actions = <<>>
  /\ reqs = EmptyBag
  /\ room = [p \in Players |-> RoomData(rooms)]
  /\ gameState = [p \in Players |-> GameStateData(p, safeGameState(p, game_state))]
  /\ drawnCard = [p \in Players |-> NoDrawn]
  /\ response = NoResponse
  /\ dutchPc = [p \in Players |-> "idle"]
  /\ memorizeTimer = FALSE
  /\ clicks = 0

NextServer ==
  \/ \E user \in Players, action \in {"draw", "swap", "discard"},
        source \in {"none", "deck", "discard"},
        hand_index \in {0} \cup PostHandIndex, drawn \in PostDrawn :
       postGameAction(user, action, source, hand_index, drawn)
  \/ \E user \in Players : GameActionReject(user)
  \/ \E user \in Players : GameActionDraw(user)
  \/ \E user \in Players : GameActionFetch(user)
  \/ \E user \in Players : GameActionUpdate(user)
  \/ \E user \in Players : AdvanceTurnRead(user)
  \/ \E user \in Players : AdvanceTurnEndGameState(user)
  \/ \E user \in Players : AdvanceTurnEndRoom(user)
  \/ \E user \in Players : AdvanceTurnWrite(user)

ServerSpec == InitServer /\ [][NextServer]_vars

\* ---- the turn timer: a game in play, left to the timer ----------------------
\* GameTimer's onTimeout, rendered for the player whose page shows their turn
\* in the playing phase: discardDrawnCard() when a card is held, nothing
\* otherwise
turnTimeout(p) ==
  /\ InRoom(p)
  /\ GameBoard(p)
  /\ isMyTurn(p)
  /\ gameState[p].phase = "playing"
  /\ IF drawnCard[p] = NoDrawn
       THEN UNCHANGED reqs
       ELSE HasFreeSlot /\ reqs' = Send(Request(p, "discard", "none", 0, drawnCard[p]))
  /\ Quiet
  /\ UNCHANGED <<clicks, db, game_actions, clients>>

\* the game as endMemorizingPhase leaves it, every page up to date: the cards
\* as dealt, the phase playing, the first player's turn, and the gestures made
\* the clicks on ready of the other players and the host's click on start
InitTimer ==
  /\ room_players = [i \in 1..NumPlayers |-> i]
  /\ is_ready = [p \in Players |-> ~isHost(p)]
  /\ rooms = [status |-> "playing", current_turn |-> room_players[1],
              dutch_caller |-> NoPlayer]
  /\ game_state = [dealtGameState(createDeck, room_players) EXCEPT
                     !.phase = "playing", !.revealed_cards = <<>>]
  /\ game_actions = <<>>
  /\ reqs = EmptyBag
  /\ room = [p \in Players |-> RoomData(rooms)]
  /\ gameState = [p \in Players |-> GameStateData(p, safeGameState(p, game_state))]
  /\ drawnCard = [p \in Players |-> NoDrawn]
  /\ response = NoResponse
  /\ dutchPc = [p \in Players |-> "idle"]
  /\ memorizeTimer = FALSE
  /\ clicks = NumPlayers

\* drawCard(source), for the draws of a run of TimerSpec
drawCard(p, source) ==
  /\ clicks < NumPlayers + MaxDraws
  /\ IF source = "deck" THEN drawCardDeck(p) ELSE drawCardDiscard(p)

\* the players draw when they like and otherwise leave the turn to the timer
NextTimer ==
  \/ \E p \in Players : fetchRoom(p)
  \/ \E p \in Players : fetchGameState(p)
  \/ \E p \in Players, source \in {"deck", "discard"} : drawCard(p, source)
  \/ \E p \in Players : turnTimeout(p)
  \/ \E user \in Players : GameActionReject(user)
  \/ \E user \in Players : GameActionDraw(user)
  \/ \E user \in Players : GameActionFetch(user)
  \/ \E user \in Players : GameActionUpdate(user)
  \/ \E user \in Players : AdvanceTurnRead(user)
  \/ \E user \in Players : AdvanceTurnWrite(user)

\* what runs without a player's doing: the realtime refreshes of the pages,
\* the timer's interval, and the edge function's handler once it is called
FairTimer ==
  /\ \A p \in Players :
       WF_vars(fetchRoom(p)) /\ WF_vars(fetchGameState(p)) /\ WF_vars(turnTimeout(p))
  /\ \A user \in Players :
       /\ WF_vars(GameActionReject(user))
       /\ WF_vars(GameActionDraw(user))
       /\ WF_vars(GameActionFetch(user))
       /\ WF_vars(GameActionUpdate(user))
       /\ WF_vars(AdvanceTurnRead(user))
       /\ WF_vars(AdvanceTurnWrite(user))

TimerSpec == InitTimer /\ [][NextTimer]_vars /\ FairTimer

\* ---- the Dutch round: a game in play, a call of Dutch, the turns after it -------
\* handleDeckClick, handleDiscardClick, handleCardClick and the Descartar
\* button: the player takes one of the actions the page offers
takeTurn(p) ==
  \/ drawCardDeck(p)
  \/ drawCardDiscard(p)
  \/ \E i \in 1..MaxHandIndex : swapWithHand(p, i)
  \/ discardDrawnCard(p)

\* the players play from the state InitTimer describes, and call Dutch
NextDutch ==
  \/ \E p \in Players : fetchRoom(p)
  \/ \E p \in Players : fetchGameState(p)
  \/ \E p \in Players : drawCardDeck(p)
  \/ \E p \in Players : drawCardDiscard(p)
  \/ \E p \in Players, i \in 1..MaxHandIndex : swapWithHand(p, i)
  \/ \E p \in Players : discardDrawnCard(p)
  \/ \E p \in Players : callDutch(p)
  \/ \E p \in Players : callDutchPhase(p)
  \/ \E user \in Players : GameActionReject(user)
  \/ \E user \in Players : GameActionDraw(user)
  \/ \E user \in Players : GameActionFetch(user)
  \/ \E user \in Players : GameActionUpdate(user)
  \/ \E user \in Players : AdvanceTurnRead(user)
  \/ \E user \in Players : AdvanceTurnEndGameState(user)
  \/ \E user \in Players : AdvanceTurnEndRoom(user)
  \/ \E user \in Players : AdvanceTurnWrite(user)

\* what runs without a player's doing (the realtime refreshes of the pages,
\* the rest of callDutch once it is called, the edge function's handler), and
\* the players: each keeps taking the actions the page offers
FairDutch ==
  /\ \A p \in Players :
       /\ WF_vars(fetchRoom(p)) /\ WF_vars(fetchGameState(p))
       /\ WF_vars(callDutchPhase(p))
       /\ WF_vars(takeTurn(p))
  /\ \A user \in Players :
       /\ WF_vars(GameActionReject(user))
       /\ WF_vars(GameActionDraw(user))
       /\ WF_vars(GameActionFetch(user))
       /\ WF_vars(GameActionUpdate(user))
       /\ WF_vars(AdvanceTurnRead(user))
       /\ WF_vars(AdvanceTurnEndGameState(user))
       /\ WF_vars(AdvanceTurnEndRoom(user))
       /\ WF_vars(AdvanceTurnWrite(user))

DutchSpec == InitTimer /\ [][NextDutch]_vars /\ FairDutch

\* ---- the two edge functions, called by members and by a player who left ------
\* a get-game-state that skips the membership check
getGameStateReplyUnchecked(user) ==
  [status |-> 200, data |-> safeGameState(user, game_state)]

\* the reply of get-game-state to user: the membership check, then the
\* filtered row
getGameStateReply(user) ==
  IF ~InRoom(user)
    THEN [status |-> 403, error |-> "not_a_member"]
    ELSE [status |-> 200, data |-> safeGameState(user, game_state)]

\* a call of get-game-state from outside the page: the reply is stored nowhere
getGameState(user) ==
  /\ response' = IF "error" \in DOMAIN getGameStateReply(user)
                   THEN getGameStateReply(user).error ELSE "data"
  /\ response' # response
  /\ UNCHANGED <<clicks, db, game_actions, reqs, clients>>

\* the room as InitServer has it, after one of the players has left it (the
\* cards were dealt to all of them; a page that was left has lost its state)
InitAccess ==
  /\ \E gone \in Players : room_players = Without([i \in 1..NumPlayers |-> i], gone)
  /\ is_ready = [p \in Players |-> ~isHost(p)]
  /\ \E turn \in Players, caller \in Players \cup {NoPlayer},
        phase \in {"none", "memorizing", "playing", "dutch_round"} :
       /\ phase \in {"none", "memorizing"} => turn = Host
       /\ caller # NoPlayer <=> phase = "dutch_round"
       /\ rooms = IF phase = "none"
                    THEN [status |-> "waiting", current_turn |-> NoPlayer,
                          dutch_caller |-> NoPlayer]
                    ELSE [status |-> "playing", current_turn |-> turn,
                          dutch_caller |-> caller]
       /\ game_state =
            IF phase = "none" THEN NoGameState
            ELSE [dealtGameState(createDeck, [i \in 1..NumPlayers |-> i]) EXCEPT
                    !.phase = phase,
                    !.revealed_cards = IF phase = "memorizing" THEN @ ELSE <<>>]
  /\ game_actions = <<>>
  /\ reqs = EmptyBag
  /\ room = [p \in Players |->
               IF InRoom(p) THEN RoomData(rooms)
               ELSE RoomData([status |-> "waiting", current_turn |-> NoPlayer,
                              dutch_caller |-> NoPlayer])]
  /\ gameState = [p \in Players |->
                    IF InRoom(p) THEN GameStateData(p, safeGameState(p, game_state))
                    ELSE NoView]
  /\ drawnCard = [p \in Players |-> NoDrawn]
  /\ response = NoResponse
  /\ dutchPc = [p \in Players |-> "idle"]
  /\ memorizeTimer = FALSE
  /\ clicks = 0

NextAccess ==
  \/ \E user \in Players : getGameState(user)
  \/ NextServer

AccessSpec == InitAccess /\ [][NextAccess]_vars

\* ---- the view of get-game-state over any stored row -----------------------------
\* the stored row: the cards as dealt, any phase, and any revealed_cards (an
\* entry for none, some or all of the players)
InitView ==
  /\ room_players = [i \in 1..NumPlayers |-> i]
  /\ is_ready = [p \in Players |-> ~isHost(p)]
  /\ \E phase \in {"memorizing", "playing", "dutch_round", "finished"},
        holders \in SUBSET Players, entry \in {<<0, 3>>, <<1, 2>>} :
       /\ rooms = [status |-> IF phase = "finished" THEN "finished" ELSE "playing",
                   current_turn |-> room_players[1], dutch_caller |-> NoPlayer]
       /\ game_state = [dealtGameState(createDeck, room_players) EXCEPT
                          !.phase = phase,
                          !.revealed_cards = [p \in holders |-> entry]]
  /\ game_actions = <<>>
  /\ reqs = EmptyBag
  /\ room = [p \in Players |-> RoomData(rooms)]
  /\ gameState = [p \in Players |-> NoView]
  /\ drawnCard = [p \in Players |-> NoDrawn]
  /\ response = NoResponse
  /\ dutchPc = [p \in Players |-> "idle"]
  /\ memorizeTimer = FALSE
  /\ clicks = 0

NextView ==
  \/ \E p \in Players : fetchGameState(p)
  \/ \E user \in Players : getGameState(user)

ViewSpec == InitView /\ [][NextView]_vars

\* ---- the points of a finished hand ----------------------------------------------
\* the `{calculateScore(myHand)} pontos` of viewer's page: myHand is the cards
\* of the viewer's own entry of the view, [] when there is none
myHandScore(viewer) ==
  LET hands == safeGameState(viewer, game_state).player_hands
      myHand == IF viewer \in DOMAIN hands /\ hands[viewer].cards # Null
                  THEN CHOOSE cards \in hands[viewer].cards : TRUE ELSE <<>>
  IN calculateScore([k \in DOMAIN myHand |-> cardOf(myHand[k])])

\* the cards the first player's final hand is made of: the hearts, the other
\* Kings, and the Ace, 10, Jack and Queen of spades (as tokens of the pack in
\* the order it is built)
ScoreCards == (1..13) \cup {26, 39, 40} \cup (49..52)

\* a finished game: the first player holds any four of ScoreCards, every
\* other player four diamonds, the Ace of clubs is on the discard pile and the
\* rest of the clubs in the deck
InitScore ==
  /\ room_players = [i \in 1..NumPlayers |-> i]
  /\ is_ready = [p \in Players |-> ~isHost(p)]
  /\ rooms = [status |-> "finished", current_turn |-> room_players[1],
              dutch_caller |-> room_players[1]]
  /\ \E a, b, c, d \in ScoreCards :
       /\ a < b /\ b < c /\ c < d
       /\ game_state =
            [exists |-> TRUE, phase |-> "finished",
             deck |-> [k \in 1..11 |-> 27 + k],
             discard_pile |-> <<27>>,
             player_hands |-> [p \in Players |->
                IF isHost(p) THEN <<a, b, c, d>>
                ELSE [k \in 1..HandSize |-> 13 + HandSize * (p - 2) + k]],
             revealed_cards |-> <<>>]
  /\ game_actions = <<>>
  /\ reqs = EmptyBag
  /\ room = [p \in Players |-> RoomData(rooms)]
  /\ gameState = [p \in Players |-> NoView]
  /\ drawnCard = [p \in Players |-> NoDrawn]
  /\ response = NoResponse
  /\ dutchPc = [p \in Players |-> "idle"]
  /\ memorizeTimer = FALSE
  /\ clicks = 0

\* the pages read the finished game and show the points
ScoreSpec == InitScore /\ [][NextView]_vars

\* ---- the action log of a game under way --------------------------------------
\* rows.reverse()
Reverse(rows) == [i \in 1..Len(rows) |-> rows[Len(rows) + 1 - i]]
\* .limit(n)
limit(rows, n) == SubSeq(rows, 1, IF Len(rows) < n THEN Len(rows) ELSE n)

\* a fetchActions that keeps the rows in the order of the query, newest first
fetchActionsNewestFirst == limit(Reverse(game_actions), ActionsLimit)

\* the actions fetchActions stores: the room's rows by created_at descending
\* (game_actions is kept in the order of creation), the first ActionsLimit of
\* them, reversed
fetchActions == Reverse(limit(Reverse(game_actions), ActionsLimit))

\* the log after turns turns in each of which the player took the top of the
\* discard pile and discarded it again: a draw and a discard per turn
RECURSIVE passedTurns(_)
passedTurns(turns) ==
  IF turns = 0 THEN <<>>
  ELSE LET p == ((turns - 1) % NumPlayers) + 1
       IN passedTurns(turns - 1) \o <<LogDraw(p, "discard"), LogEntry(p, "discard")>>

\* a game in play after no such turn, or after as many as make a log of
\* ActionsLimit rows, MaxLogExtra fewer or MaxLogExtra more (they leave the
\* cards as dealt), every page up to date; the run has MaxLogClicks gestures to
\* come
InitLog ==
  /\ room_players = [i \in 1..NumPlayers |-> i]
  /\ is_ready = [p \in Players |-> ~isHost(p)]
  /\ \E turns \in {0} \cup (((ActionsLimit - MaxLogExtra) \div 2)
                           ..((ActionsLimit + MaxLogExtra) \div 2)) :
       /\ rooms = [status |-> "playing",
                   current_turn |-> room_players[(turns % NumPlayers) + 1],
                   dutch_caller |-> NoPlayer]
       /\ game_actions = passedTurns(turns)
  /\ game_state = [dealtGameState(createDeck, room_players) EXCEPT
                     !.phase = "playing", !.revealed_cards = <<>>]
  /\ reqs = EmptyBag
  /\ room = [p \in Players |-> RoomData(rooms)]
  /\ gameState = [p \in Players |-> GameStateData(p, safeGameState(p, game_state))]
  /\ drawnCard = [p \in Players |-> NoDrawn]
  /\ response = NoResponse
  /\ dutchPc = [p \in Players |-> "idle"]
  /\ memorizeTimer = FALSE
  /\ clicks = MaxClicks - MaxLogClicks

\* the operations of a game in play (the end of the game, which writes
\* game_state.phase and rooms.status only, is more than MaxLogClicks gestures
\* away)
NextLog ==
  \/ \E p \in Players : fetchRoom(p)
  \/ \E p \in Players : fetchGameState(p)
  \/ \E p \in Players : leaveRoom(p)
  \/ \E p \in Players : drawCardDeck(p)
  \/ \E p \in Players : drawCardDiscard(p)
  \/ \E p \in Players, i \in 1..MaxHandIndex : swapWithHand(p, i)
  \/ \E p \in Players : discardDrawnCard(p)
  \/ \E p \in Players : callDutch(p)
  \/ \E p \in Players : callDutchPhase(p)
  \/ \E user \in Players : GameActionReject(user)
  \/ \E user \in Players : GameActionDraw(user)
  \/ \E user \in Players : GameActionFetch(user)
  \/ \E user \in Players : GameActionUpdate(user)
  \/ \E user \in Players : AdvanceTurnRead(user)
  \/ \E user \in Players : AdvanceTurnWrite(user)

LogSpec == InitLog /\ [][NextLog]_vars

\* ---- from the lobby to the deal, the pack shuffled -------------------------------
NextStart ==
  \/ \E p \in Players : fetchRoom(p)
  \/ \E p \in Players : toggleReady(p)
  \/ \E p \in Players : leaveRoom(p)
  \/ \E p \in Players : startGame(p)
  \/ \E p \in Players : fetchGameState(p)
  \/ \E p \in Players : initializeGameShuffled(p)
  \/ \E p \in Players : endMemorizingPhase(p)

StartSpec == Init /\ [][NextStart]_vars

\* ---- the claims -------------------------------------------------------------
\* C1: in every reachable state and phase, the get-game-state response built
\* for a room member V carries, for every player other than V, cards = null
\* and cardCount = the length of that player's stored hand.
C1_OtherHandsRedacted ==
  \A V \in Range(room_players) :
    LET data == safeGameState(V, game_state) IN
    game_state.exists =>
      /\ DOMAIN data.player_hands = DOMAIN game_state.player_hands
      /\ \A O \in DOMAIN data.player_hands :
           O # V => /\ data.player_hands[O].cards = Null
                    /\ data.player_hands[O].cardCount = Len(game_state.player_hands[O])

\* a finished game read by a member, with another player's hand in the row
C1_Witness ==
  /\ game_state.exists
  /\ game_state.phase = "finished"
  /\ \E V \in Range(room_players), O \in DOMAIN game_state.player_hands :
       O # V /\ Len(game_state.player_hands[O]) = HandSize
             /\ safeGameState(V, game_state).player_hands[O].cardCount = HandSize

\* C2: after dealing and after any sequence of accepted draw, swap and discard
\* requests, the stored game state holds every card of the pack:
\* |deck| + |discard_pile| + the sum of the hand sizes = the size of the pack.
C2_AllCardsKept ==
  game_state.exists =>
    Len(game_state.deck) + Len(game_state.discard_pile)
      + SumLen(game_state.player_hands, DOMAIN game_state.player_hands) = NumCards

\* C3: a draw, swap or discard request of a player P that game-action takes up
\* while rooms.current_turn is not P is answered with an error, is over with
\* that answer, and leaves the game_state row and the rooms row as they were.
C3_OutOfTurnRejected ==
  [][\A r \in InFlight :
       (r.pc = "guard" /\ rooms.current_turn # r.player
          /\ CopiesIn(r, reqs') < CopiesIn(r, reqs))
       => /\ response' \in {"not_your_turn", "not_a_member"}
          /\ reqs' = Remove(r)
          /\ game_state' = game_state
          /\ rooms' = rooms
          /\ drawnCard' = drawnCard]_vars

\* a request was just refused for the turn, in a running game
C3_Witness ==
  /\ response = "not_your_turn"
  /\ rooms.status = "playing"
  /\ game_state.exists

\* C4: once dutch_caller = D is set, the game finishes at the turn advance
\* whose next player is D: no turn advance made while dutch_caller = D makes D
\* the current player again.
C4_CallerNeverCurrentAgain ==
  [][(rooms.dutch_caller # NoPlayer /\ rooms'.current_turn # rooms.current_turn)
       => rooms'.current_turn # rooms.dutch_caller]_vars

\* C5: the turn check and the mutation are one atomic step per room: of the
\* turn-ending requests in flight at the same time, at most one is past the
\* turn check.
C5_OneAcceptedAtATime ==
  \A r1, r2 \in InFlight :
    (r1.pc # "guard" /\ r2.pc # "guard") => (r1 = r2 /\ CopiesIn(r1, reqs) = 1)

\* C6: a swap or discard is never partially applied: in no reachable state
\* has a request written its cards to game_state while rooms.current_turn is
\* still the acting player.
C6_NoPartialResult ==
  \A r \in InFlight :
    r.pc \in {"advance", "adv_turn", "end_game_state", "end_room"}
      => rooms.current_turn # r.player

\* C7: the phase of the game_state row never regresses: every step leaves it
\* or moves it forward along memorizing, playing, dutch_round, finished.
C7_PhaseNeverRegresses ==
  [][PhaseRank(game_state'.phase) >= PhaseRank(game_state.phase)]_vars

\* C8: once rooms.dutch_caller is set to a player it keeps that value: no
\* step changes or clears it.
C8_DutchCallerKept ==
  [][rooms.dutch_caller # NoPlayer => rooms'.dutch_caller = rooms.dutch_caller]_vars

\* C9: a call of Dutch by P sets dutch_caller only when dutch_caller is null,
\* current_turn = P and P holds no drawn card.
C9_DutchCallGuarded ==
  [][rooms'.dutch_caller # rooms.dutch_caller
       => /\ rooms.dutch_caller = NoPlayer
          /\ rooms.current_turn = rooms'.dutch_caller
          /\ drawnCard[rooms'.dutch_caller] = NoDrawn]_vars

\* C10: while rooms.status = playing, rooms.current_turn is a player of the
\* room's room_players rows.
C10_CurrentTurnIsMember ==
  rooms.status = "playing" => rooms.current_turn \in Range(room_players)

\* C11: a draw, swap or discard request that game-action takes up while
\* rooms.status is not playing (waiting or finished) is answered with an error
\* and is over with it; the game_state row and the rooms row stay as they were.
C11_StatusChecked ==
  [][\A r \in InFlight :
       (r.pc = "guard" /\ rooms.status # "playing"
          /\ CopiesIn(r, reqs') < CopiesIn(r, reqs))
       => /\ response' \in {"not_playing", "not_your_turn", "not_a_member"}
          /\ reqs' = Remove(r)
          /\ game_state' = game_state
          /\ rooms' = rooms]_vars

\* the current player's request was just refused in a finished room
C11_Witness ==
  /\ response = "not_playing"
  /\ rooms.status = "finished"
  /\ rooms.current_turn \in Range(room_players)

\* C12: while game_state.phase is memorizing or finished no step changes the
\* piles, the hands or rooms.current_turn, and a draw, swap or discard request
\* that game-action takes up in such a phase is answered with an error.
C12_PhaseChecked ==
  [][(game_state.exists /\ game_state.phase \in {"memorizing", "finished"})
       => /\ game_state'.deck = game_state.deck
          /\ game_state'.discard_pile = game_state.discard_pile
          /\ game_state'.player_hands = game_state.player_hands
          /\ rooms'.current_turn = rooms.current_turn
          /\ \A r \in InFlight :
               (r.pc = "guard" /\ CopiesIn(r, reqs') < CopiesIn(r, reqs))
                 => response' \notin {NoResponse, "success"}]_vars

\* C13: a swap or discard request of a player who holds no drawn card (no draw
\* of this turn is waiting to be resolved) is answered with an error when
\* game-action takes it up, is over with that answer, and changes nothing.
C13_DrawBeforeSwapOrDiscard ==
  [][\A r \in InFlight :
       (r.pc = "guard" /\ r.action \in {"swap", "discard"}
          /\ drawnCard[r.player] = NoDrawn
          /\ CopiesIn(r, reqs') < CopiesIn(r, reqs))
       => /\ response' \notin {NoResponse, "success"}
          /\ reqs' = Remove(r)
          /\ game_state' = game_state
          /\ rooms' = rooms]_vars

\* C14: a draw request of a player who already holds a drawn card that is not
\* yet swapped or discarded is answered with an error when game-action takes
\* it up, and hands out no card: a player draws at most once per turn.
C14_OneDrawPerTurn ==
  [][\A r \in InFlight :
       (r.pc = "guard" /\ r.action = "draw"
          /\ drawnCard[r.player] # NoDrawn
          /\ CopiesIn(r, reqs') < CopiesIn(r, reqs))
       => /\ response' \notin {NoResponse, "success"}
          /\ drawnCard' = drawnCard]_vars

\* C15: a draw request that game-action takes up while the pile it names is
\* empty is answered with an error and leaves the game_state row, the rooms
\* row and the cards held as they were; and game-action accepts no swap or
\* discard that takes the drawn card off a pile that is empty.  (The pile a
\* request names is the source of a draw, the drawn_source of a swap or
\* discard.)
C15_EmptyPileRejected ==
  [][\A r \in InFlight :
       (r.pc = "guard" /\ GuardVerdict(r.player) = "pass" /\ game_state.exists
          /\ Len(IF r.source = "deck" \/ r.drawn_source = "deck"
                   THEN game_state.deck ELSE game_state.discard_pile) = 0
          /\ CopiesIn(r, reqs') < CopiesIn(r, reqs))
       => /\ response' \notin {NoResponse, "success"}
          /\ reqs' = Remove(r)
          /\ game_state' = game_state
          /\ rooms' = rooms
          /\ drawnCard' = drawnCard]_vars

\* C16: the row initializeGame stores for n players, n from 2 to 6: every
\* player has a hand of exactly 4 cards and revealed_cards [0, 3], the deck
\* has 52 - 4n - 1 cards, the discard pile 1, the phase is memorizing, and the
\* hands, the deck and the discard pile together are the 52 cards of the pack,
\* each exactly once.
C16_Deal ==
  game_state.exists =>
    LET n == Len(room_players)
        hands == game_state.player_hands
        dealt == Range(game_state.deck) \cup Range(game_state.discard_pile)
                   \cup UNION {Range(hands[p]) : p \in DOMAIN hands}
    IN /\ n \in MinPlayers..MaxRoomPlayers
       /\ DOMAIN hands = Range(room_players)
       /\ DOMAIN game_state.revealed_cards = Range(room_players)
       /\ \A p \in Range(room_players) :
            Len(hands[p]) = 4 /\ game_state.revealed_cards[p] = <<0, 3>>
       /\ Len(game_state.deck) = 52 - 4 * n - 1
       /\ Len(game_state.discard_pile) = 1
       /\ game_state.phase = "memorizing"
       /\ Cardinality({c.id : c \in Range(orderedDeck)}) = 52
       /\ dealt = Range(orderedDeck)
       /\ Len(game_state.deck) + Len(game_state.discard_pile)
            + SumLen(hands, DOMAIN hands) = 52

\* six players were dealt from a pack the shuffle has reordered
C16_Witness ==
  /\ game_state.exists
  /\ Len(room_players) = MaxRoomPlayers
  /\ Len(game_state.deck) = 27
  /\ game_state.player_hands[1] # SubSeq(orderedDeck, 1, HandSize)
  /\ gameState[Host].exists

\* C17: a call of initializeGame made while the room has fewer than 2 players
\* fails: it leaves the game_state row as it is (none is created) and shows
\* an error.  (A step is such a call when it ends in one of initializeGame's
\* outcomes: the return without a word, the error toast, or a row created.)
C17_DealNeedsTwoPlayers ==
  [][(/\ Len(room_players) < MinPlayers
      /\ \/ response' \in {"returned", "toast_error"}
         \/ ~game_state.exists /\ game_state'.exists)
       => /\ game_state' = game_state
          /\ response' = "toast_error"]_vars

\* C18: when the finished-game board is shown, the score it shows for every
\* player is the sum of the card values of that player's final hand, and the
\* player it ranks first is one with the lowest such sum.
C18_ScoresShown ==
  \A viewer \in Players :
    (GameFinished(viewer) /\ game_state.exists /\ game_state.phase = "finished") =>
      LET total(p) == calculateScore([k \in DOMAIN game_state.player_hands[p] |->
                                        cardOf(game_state.player_hands[p][k])])
      IN /\ \A p \in Range(room_players) : score(viewer, p) = total(p)
         /\ \A p \in Range(room_players) : total(rankedFirst(viewer)) <= total(p)

\* The round trip of C19, as a state: the game's log is a draw and a swap of a
\* player P and then a draw of a player Q and nothing else; the swap has taken
\* the top card C of the deck as dealt into P's hand at index i; Q's draw was
\* from the discard pile; and every request has been answered.
C19_RoundTrip(P, Q, i) ==
  LET dealt == dealtGameState(createDeck, room_players)
  IN /\ game_state.exists
     /\ reqs = EmptyBag
     /\ game_actions = <<LogDraw(P, "deck"), LogEntry(P, "swap"), LogDraw(Q, "discard")>>
     /\ game_state.deck = Front(dealt.deck)
     /\ game_state.player_hands[P][i] = Last(dealt.deck)
     /\ drawnCard[Q].source = "discard"

C20_Dealt == [i \in 1..NumPlayers |-> i]

\* C20: when the current player P has drawn from the deck and then discarded
\* the drawn card (the log of the game is that draw and that discard, every
\* request is answered and the players are those dealt to), the stored state
\* is the dealt one with the deck one card shorter, its former top removed,
\* the discard pile one card longer with that card on top, every hand as
\* dealt, and current_turn the player after P in position order.
C20_DrawThenDiscard ==
  \A P \in Players :
    (/\ game_actions = <<LogDraw(P, "deck"), LogEntry(P, "discard")>>
     /\ reqs = EmptyBag
     /\ room_players = C20_Dealt)
    => LET dealt == dealtGameState(createDeck, C20_Dealt)
       IN /\ game_state.deck = Front(dealt.deck)
          /\ Len(game_state.deck) = Len(dealt.deck) - 1
          /\ game_state.discard_pile = Append(dealt.discard_pile, Last(dealt.deck))
          /\ game_state.player_hands = dealt.player_hands
          /\ rooms.current_turn = C20_Dealt[(findIndex(C20_Dealt, P) % NumPlayers) + 1]
          /\ rooms.current_turn # P

\* the first player has drawn from the deck and discarded, and it is the
\* second player's turn
C20_Witness ==
  /\ game_actions = <<LogDraw(Host, "deck"), LogEntry(Host, "discard")>>
  /\ reqs = EmptyBag
  /\ room_players = C20_Dealt
  /\ Len(game_state.discard_pile) = 2
  /\ rooms.status = "playing"

\* C21: a game in status playing never stays forever on the same
\* current_turn: whenever it is a player's turn, the timer's expiry (with the
\* discard of a held card) leads to a state where the turn has passed on or
\* the game is over.
C21_TurnNeverStalls ==
  \A p \in Players :
    (rooms.status = "playing" /\ rooms.current_turn = p)
      ~> (rooms.status # "playing" \/ rooms.current_turn # p)

\* C22: a caller who is not in room_players gets an error from get-game-state
\* and from game-action: the reply of get-game-state to them is the 403 and
\* carries no data, their game-action request is answered 'not a member' when
\* it is taken up, and neither call changes a row, the log or a held card.
C22_NonMemberRefused ==
  [][\A user \in Players :
       ~InRoom(user) =>
         /\ getGameStateReply(user).status = 403
         /\ DOMAIN getGameStateReply(user) = {"status", "error"}
         /\ (response' = "not_a_member" /\ reqs' = reqs)
              => UNCHANGED <<db, game_actions, clients>>
         /\ \A r \in InFlight :
              (r.pc = "guard" /\ r.player = user
                 /\ CopiesIn(r, reqs') < CopiesIn(r, reqs))
              => /\ response' = "not_a_member"
                 /\ reqs' = Remove(r)
                 /\ UNCHANGED <<db, game_actions, clients>>]_vars

\* the player whose turn it is has left the running game and was just refused
C22_Witness ==
  /\ response = "not_a_member"
  /\ rooms.status = "playing"
  /\ game_state.exists
  /\ ~InRoom(rooms.current_turn)
  /\ game_state = [game_state EXCEPT !.phase = "playing"]

\* C23: the revealed_cards of the view returned to a viewer V holds at most
\* V's own entry, as stored, and only while the phase is memorizing; in the
\* phases playing, dutch_round and finished it is empty for every viewer,
\* whatever the stored revealed_cards holds.
C23_RevealedCardsFiltered ==
  \A V \in Range(room_players) :
    LET view == getGameStateReply(V).data.revealed_cards IN
    /\ DOMAIN view \subseteq {V}
    /\ V \in DOMAIN view => /\ V \in DOMAIN game_state.revealed_cards
                            /\ view[V] = game_state.revealed_cards[V]
                            /\ game_state.phase = "memorizing"
    /\ game_state.phase \in {"playing", "dutch_round", "finished"} => view = <<>>
    /\ (game_state.phase = "memorizing" /\ V \in DOMAIN game_state.revealed_cards)
         => V \in DOMAIN view

\* a game in play whose row still holds every player's revealed cards, read by
\* a player
C23_Witness ==
  /\ game_state.phase = "playing"
  /\ DOMAIN game_state.revealed_cards = Players
  /\ \E V \in Players : gameState[V].exists /\ gameState[V].phase = "playing"
  /\ response = "data"

\* the array createDeck returned to the deal that stored the row: the hands in
\* position order, the discard pile's card and the deck
C24_Pack ==
  LET RECURSIVE hands(_)
      hands(k) == IF k = 0 THEN <<>>
                  ELSE hands(k - 1) \o game_state.player_hands[room_players[k]]
  IN hands(Len(room_players)) \o game_state.discard_pile \o game_state.deck

\* C24: the deck createDeck returns has exactly 52 cards, one for each of the
\* 4 suits x 13 ranks, none repeated or missing, whatever the shuffle chose;
\* and a call of shuffleDeck returns an array that is a permutation of the
\* one it was given and leaves the one it was given as it was.
C24_DeckAndShuffle ==
  /\ game_state.exists =>
       /\ Len(C24_Pack) = 52
       /\ \A s \in Range(suits), r \in Range(ranks) :
            Cardinality({k \in DOMAIN C24_Pack :
                           C24_Pack[k].suit = s /\ C24_Pack[k].rank = r}) = 1
  /\ \A seed \in 0..MaxSeed :
       LET call == shuffleDeckCall(<<orderedDeck>>, 1, seed)
           out == call.heap[call.returned]
       IN /\ call.heap[1] = orderedDeck
          /\ Len(out) = Len(orderedDeck)
          /\ \A c \in Range(orderedDeck) \cup Range(out) :
               Cardinality({k \in DOMAIN out : out[k] = c})
                 = Cardinality({k \in DOMAIN orderedDeck : orderedDeck[k] = c})

\* a deck was created whose shuffle has moved cards, and dealt to two players
C24_Witness ==
  /\ game_state.exists
  /\ Len(room_players) = MinPlayers
  /\ C24_Pack # orderedDeck
  /\ Len(C24_Pack) = 52
  /\ \E seed \in 2..MaxSeed : C24_Pack = shuffleDeck(orderedDeck, seed)

\* the value C25 gives a card
C25_Value(card) ==
  LET face == [r \in {"2", "3", "4", "5", "6", "7", "8", "9", "10"} |->
                 CASE r = "2" -> 2 [] r = "3" -> 3 [] r = "4" -> 4 [] r = "5" -> 5
                   [] r = "6" -> 6 [] r = "7" -> 7 [] r = "8" -> 8 [] r = "9" -> 9
                   [] r = "10" -> 10]
  IN CASE card.rank = "A" -> 1
       [] card.rank \in {"J", "Q"} -> 10
       [] card.rank = "K" /\ card.suit \in {"clubs", "spades"} -> 0
       [] card.rank = "K" /\ card.suit \in {"hearts", "diamonds"} -> -1
       [] OTHER -> face[card.rank]

\* C25: getCardValue gives A = 1, the ranks 2..10 their face number, J and Q
\* 10, the King of clubs or spades 0 and the King of hearts or diamonds -1;
\* calculateScore of a hand is the sum of getCardValue over its cards, 0 for
\* the empty hand; and the points shown for a final hand of 4 cards of the
\* pack (no card twice) are that sum and lie between -2 and 40.
C25_CardValues ==
  /\ \A card \in Range(orderedDeck) : getCardValue(card) = C25_Value(card)
  /\ calculateScore(<<>>) = 0
  /\ \A card \in Range(orderedDeck) : calculateScore(<<card>>) = C25_Value(card)
  /\ \A viewer \in Players :
       (game_state.exists /\ viewer \in DOMAIN game_state.player_hands
          /\ Len(game_state.player_hands[viewer]) = 4
          /\ Cardinality(Range(game_state.player_hands[viewer])) = 4) =>
         LET hand == game_state.player_hands[viewer]
         IN /\ myHandScore(viewer) =
                 C25_Value(cardOf(hand[1])) + C25_Value(cardOf(hand[2]))
                   + C25_Value(cardOf(hand[3])) + C25_Value(cardOf(hand[4]))
            /\ calculateScore([k \in 1..4 |-> cardOf(hand[k])]) = myHandScore(viewer)
            /\ myHandScore(viewer) >= -2
            /\ myHandScore(viewer) <= 40

\* the finished board of a player who holds the four Kings shows -2 points
C25_Witness ==
  /\ GameFinished(Host)
  /\ game_state.player_hands[Host] = <<13, 26, 39, 52>>
  /\ myHandScore(Host) = -2

\* C26: for a log of k rows, fetchActions yields exactly the min(k, 50) rows
\* created last, the oldest of them first; and no step of the game changes or
\* removes a row the log already holds (the log only grows at its end).
C26_LogCappedAndKept ==
  [][LET k == Len(game_actions)
         n == IF k < 50 THEN k ELSE 50
         actions == fetchActions
     IN /\ Len(actions) = n
        /\ \A i \in 1..n : actions[i] = game_actions[k - n + i]
        /\ Len(game_actions') >= k
        /\ \A i \in 1..k : game_actions'[i] = game_actions[i]]_vars

\* the log holds more than 50 rows, the last of them a swap of this game, and
\* the oldest rows are not among the 50 fetched
C26_Witness ==
  /\ Len(game_actions) > ActionsLimit
  /\ game_actions[Len(game_actions)].action_type = "swap"
  /\ Len(fetchActions) = ActionsLimit
  /\ fetchActions[ActionsLimit] = game_actions[Len(game_actions)]
  /\ fetchActions[1] # game_actions[1]

\* C27: the room has at most one game_state row (the row is the one of the
\* room's id); a step creates it only when rooms.status has moved from waiting
\* to playing; and an initializeGame for a room that has its row creates no
\* second one: it leaves the row as it is (and fails, or returns at once when
\* the players are fewer than two).
C27_OneGameState ==
  [][/\ (~game_state.exists /\ game_state'.exists)
          => (rooms.status = "playing" /\ game_state'.phase = "memorizing")
     /\ \A p \in Players :
          (initializeGameShuffled(p) /\ game_state.exists)
            => (game_state' = game_state /\ response' \in {"toast_error", "returned"})]_vars

\* the host's page, not yet showing the game it has dealt, has called
\* initializeGame again and was refused
C27_Witness ==
  /\ response = "toast_error"
  /\ game_state.exists
  /\ rooms.status = "playing"
  /\ ~gameState[Host].exists

\* C28: in every stored game_state row, from the deal to the end of the game,
\* every player dealt to has a hand of exactly 4 cards: no accepted swap or
\* discard changes the length of a hand.
C28_HandsOfFour ==
  game_state.exists =>
    /\ DOMAIN game_state.player_hands = Players
    /\ \A p \in Players : Len(game_state.player_hands[p]) = 4

\* a swap was accepted and written: a player's hand is no longer the one dealt
C28_Witness ==
  /\ game_state.exists
  /\ \E p \in Players :
       /\ LogEntry(p, "swap") \in Range(game_actions)
       /\ game_state.player_hands[p]
            # dealtGameState(createDeck, [i \in 1..NumPlayers |-> i]).player_hands[p]
       /\ Len(game_state.player_hands[p]) = 4

\* C29: every accepted swap at hand index i with a card drawn from the deck
\* leaves hand[i] of the acting player the former top of the deck, the deck
\* without its top card, the discard pile one card longer with the displaced
\* card on top, and every other hand position and every other player's hand
\* as they were. "Former" is the stored row at the moment of the write.
C29_SwapFromDeck ==
  [][\A r \in InFlight :
       (/\ r.pc = "update" /\ r.action = "swap" /\ r.drawn_source = "deck"
        /\ game_state.exists
        /\ CopiesIn(r, reqs') < CopiesIn(r, reqs)
        /\ Len(game_actions') > Len(game_actions))
       => LET P == r.player
              i == r.hand_index
          IN /\ Len(game_state.deck) > 0
             /\ game_state'.player_hands[P][i] = Last(game_state.deck)
             /\ game_state'.deck = Front(game_state.deck)
             /\ game_state'.discard_pile
                  = Append(game_state.discard_pile, game_state.player_hands[P][i])
             /\ Len(game_state'.discard_pile) = Len(game_state.discard_pile) + 1
             /\ \A k \in DOMAIN game_state.player_hands[P] :
                  k # i => game_state'.player_hands[P][k] = game_state.player_hands[P][k]
             /\ \A O \in DOMAIN game_state.player_hands :
                  O # P => game_state'.player_hands[O] = game_state.player_hands[O]]_vars

\* C30: an accepted swap at hand index i with a card drawn from the discard
\* pile (the swap is written next after the draw of its card) leaves hand[i]
\* of the acting player the former top of the discard pile, the displaced card
\* in its place as the top, the length of the discard pile and the deck as
\* they were, and every other hand position and every other player's hand as
\* they were.
C30_SwapFromDiscard ==
  [][\A r \in InFlight :
       (/\ r.pc = "update" /\ r.action = "swap" /\ r.drawn_source = "discard"
        /\ game_state.exists
        /\ CopiesIn(r, reqs') < CopiesIn(r, reqs)
        /\ Len(game_actions') > Len(game_actions)
        /\ Len(game_actions) > 0
        /\ Last(game_actions) = LogDraw(r.player, "discard"))
       => LET P == r.player
              i == r.hand_index
          IN /\ Len(game_state.discard_pile) > 0
             /\ game_state'.player_hands[P][i] = Last(game_state.discard_pile)
             /\ game_state'.discard_pile
                  = Append(Front(game_state.discard_pile), game_state.player_hands[P][i])
             /\ Len(game_state'.discard_pile) = Len(game_state.discard_pile)
             /\ game_state'.deck = game_state.deck
             /\ \A k \in DOMAIN game_state.player_hands[P] :
                  k # i => game_state'.player_hands[P][k] = game_state.player_hands[P][k]
             /\ \A O \in DOMAIN game_state.player_hands :
                  O # P => game_state'.player_hands[O] = game_state.player_hands[O]]_vars

\* C31: when the current player P has taken the top of the discard pile and
\* then discarded it (the log of the game is that draw and that discard, every
\* request is answered and the players are those dealt to), the deck, the
\* discard pile and every hand are as they were before the draw, the dealt
\* ones, and current_turn is the player after P in position order.
C31_DiscardOfDiscardDrawn ==
  \A P \in Players :
    (/\ game_actions = <<LogDraw(P, "discard"), LogEntry(P, "discard")>>
     /\ reqs = EmptyBag
     /\ room_players = C20_Dealt)
    => LET dealt == dealtGameState(createDeck, C20_Dealt)
       IN /\ game_state.deck = dealt.deck
          /\ game_state.discard_pile = dealt.discard_pile
          /\ game_state.player_hands = dealt.player_hands
          /\ rooms.current_turn = nextPlayerOf(C20_Dealt, P)
          /\ rooms.current_turn # P

\* the first player has taken the top of the discard pile and put it back,
\* and it is the second player's turn
C31_Witness ==
  /\ game_actions = <<LogDraw(Host, "discard"), LogEntry(Host, "discard")>>
  /\ reqs = EmptyBag
  /\ room_players = C20_Dealt
  /\ game_state.exists
  /\ rooms.status = "playing"
  /\ rooms.current_turn = nextPlayerOf(C20_Dealt, Host)
  /\ drawnCard[Host] = NoDrawn

\* C32: a draw never changes the stored deck, discard pile, hands, phase or
\* current_turn; it only hands the card at the top (the last position) of the
\* named pile of the stored state to the current player and appends one draw
\* row to the log.  A draw is a draw request that game-action answers, or the
\* page's own drawCard('discard'), which logs its row itself.
C32_DrawChangesNothing ==
  [][/\ \A r \in InFlight :
          (r.pc = "guard" /\ r.action = "draw"
             /\ CopiesIn(r, reqs') < CopiesIn(r, reqs))
          => LET pile == IF r.source = "deck" THEN game_state.deck
                         ELSE game_state.discard_pile
             IN /\ game_state' = game_state
                /\ rooms' = rooms
                /\ IF response' = "success"
                     THEN /\ rooms.current_turn = r.player
                          /\ Len(pile) > 0
                          /\ drawnCard' = [drawnCard EXCEPT ![r.player] =
                               [card |-> Last(pile), source |-> r.source]]
                          /\ game_actions' = Append(game_actions, LogDraw(r.player, r.source))
                     ELSE drawnCard' = drawnCard /\ game_actions' = game_actions
     /\ \A p \in Players :
          (reqs' = reqs /\ game_actions' = Append(game_actions, LogDraw(p, "discard")))
          => /\ game_state' = game_state
             /\ rooms' = rooms
             /\ rooms.current_turn = p
             /\ Len(game_state.discard_pile) > 0
             /\ drawnCard' = [drawnCard EXCEPT ![p] =
                  [card |-> Last(game_state.discard_pile), source |-> "discard"]]]_vars

\* the rows of a log that end a turn: the swaps and the discards, oldest first
C33_TurnEnds(log) == SelectSeq(log, LAMBDA row : row.action_type \in {"swap", "discard"})

\* C33: with no Dutch call, the turn advance of an accepted swap or discard
\* sets current_turn to the player at index (index of current_turn + 1) mod
\* playerCount of the players in position order, and the accepted swaps and
\* discards are made in cyclic position order: each one is made by the player
\* after the one who made the swap or discard before it, so nobody is skipped
\* and nobody acts twice in a row.
C33_TurnsInCyclicOrder ==
  [][rooms.dutch_caller = NoPlayer /\ rooms'.dutch_caller = NoPlayer
       => /\ rooms'.current_turn # rooms.current_turn /\ rooms.status = "playing"
               => rooms'.current_turn = nextPlayerOf(room_players, rooms.current_turn)
          /\ LET before == C33_TurnEnds(game_actions)
                 after == C33_TurnEnds(game_actions')
             IN (Len(after) > Len(before) /\ Len(before) > 0
                   /\ Len(room_players) >= MinPlayers)
                => /\ Last(after).player_id = nextPlayerOf(room_players, Last(before).player_id)
                   /\ Last(after).player_id # Last(before).player_id]_vars

C35_Hidden(V, gs) ==
  Range(gs.deck) \cup UNION {Range(gs.player_hands[O]) : O \in DOMAIN gs.player_hands \ {V}}

\* the stored row with its hidden cards exchanged by f: the deck and the other
\* players' hands keep their lengths and change their contents
C35_Exchanged(V, gs, f) ==
  [gs EXCEPT
     !.deck = [i \in DOMAIN gs.deck |-> f[gs.deck[i]]],
     !.player_hands = [O \in DOMAIN gs.player_hands |->
        IF O = V THEN gs.player_hands[O]
        ELSE [k \in DOMAIN gs.player_hands[O] |-> f[gs.player_hands[O][k]]]]]

\* two stored rows agree on all that V may see
C35_Agree(V, g1, g2) ==
  /\ g1.phase = g2.phase
  /\ g1.discard_pile = g2.discard_pile
  /\ DOMAIN g1.player_hands = DOMAIN g2.player_hands
  /\ V \in DOMAIN g1.player_hands => g1.player_hands[V] = g2.player_hands[V]
  /\ V \in DOMAIN g1.revealed_cards <=> V \in DOMAIN g2.revealed_cards
  /\ V \in DOMAIN g1.revealed_cards => g1.revealed_cards[V] = g2.revealed_cards[V]
  /\ Len(g1.deck) = Len(g2.deck)
  /\ \A O \in DOMAIN g1.player_hands : Len(g1.player_hands[O]) = Len(g2.player_hands[O])

\* C35: for a viewer V, two stored game states that agree on the phase, the
\* discard pile, V's own hand, V's revealed set, the length of the deck and
\* the length of every other player's hand, and differ in the cards of the
\* deck or of the other players' hands, get the same get-game-state response
\* for V.  (The second state is the stored one with its hidden cards exchanged
\* among themselves in every possible way.)
C35_HiddenCardsDoNotShow ==
  \A V \in Range(room_players) :
    game_state.exists =>
      \A f \in Permutations(C35_Hidden(V, game_state)) :
        LET other == C35_Exchanged(V, game_state, f)
        IN C35_Agree(V, game_state, other)
             => safeGameState(V, other) = safeGameState(V, game_state)

\* a player has read the view of a row from which another row differs in the
\* top card of the deck and in another player's hand
C35_Witness ==
  /\ game_state.exists
  /\ response = "data"
  /\ \E V \in Range(room_players) :
       /\ gameState[V].exists
       /\ \E f \in Permutations(C35_Hidden(V, game_state)) :
            LET other == C35_Exchanged(V, game_state, f)
            IN /\ C35_Agree(V, game_state, other)
               /\ Len(other.deck) > 0
               /\ Last(other.deck) # Last(game_state.deck)
               /\ \E O \in DOMAIN other.player_hands :
                    other.player_hands[O] # game_state.player_hands[O]

\* the cards of a stored row are pairwise distinct across the deck, the
\* discard pile and the hands
C36_Distinct(gs) ==
  Cardinality(Range(gs.deck) \cup Range(gs.discard_pile)
                \cup UNION {Range(gs.player_hands[p]) : p \in DOMAIN gs.player_hands})
    = Len(gs.deck) + Len(gs.discard_pile) + SumLen(gs.player_hands, DOMAIN gs.player_hands)

\* C36: the card that an accepted swap writes into the hand, and the card that
\* an accepted discard of a card from the deck pushes onto the discard pile,
\* is the card on top of the pile it names (drawn_source) in the stored state
\* at the time game-action processes the request, that is, reads the row; and
\* the cards of the deck, the discard pile and the hands stay pairwise
\* distinct.
C36_DrawnCardIsPileTop ==
  [][/\ \A r \in InFlight :
          (/\ r.pc = "guard" /\ r.action \in {"swap", "discard"}
           /\ r.action = "discard" => r.drawn_source = "deck"
           /\ CopiesIn(r, reqs') < CopiesIn(r, reqs)
           /\ response' = NoResponse)
          => LET pile == IF r.drawn_source = "deck" THEN game_state.deck
                         ELSE game_state.discard_pile
             IN Len(pile) > 0 /\ r.drawn_card = Last(pile)
     /\ game_state.exists => C36_Distinct(game_state)
     /\ game_state'.exists => C36_Distinct(game_state')]_vars

\* the rows of a log that follow its first dutch row (none when it has none)
C37_AfterCall(log) ==
  LET calls == {k \in DOMAIN log : log[k].action_type = "dutch"}
  IN IF calls = {} THEN <<>>
     ELSE SubSeq(log, (CHOOSE k \in calls : \A j \in calls : k <= j) + 1, Len(log))

\* C37: after player D has called Dutch on their turn in a game of n players
\* (nobody has left), D completes at most one swap or discard, the one of the
\* turn of the call, before any other player's; every other player completes
\* at most one, in position order after D; the game is finished only when
\* all n-1 of them have completed theirs, and is finished once the last of
\* them has and its request is answered.
C37_DutchRound ==
  LET D == rooms.dutch_caller
      n == Len(room_players)
      ends == C33_TurnEnds(C37_AfterCall(game_actions))
      ofCaller == SelectSeq(ends, LAMBDA row : row.player_id = D)
      ofOthers == SelectSeq(ends, LAMBDA row : row.player_id # D)
  IN (/\ D # NoPlayer
      /\ room_players = C20_Dealt
      /\ \E k \in DOMAIN game_actions : game_actions[k] = LogEntry(D, "dutch"))
     => /\ Len(ofCaller) <= 1
        /\ Len(ofCaller) = 1 => ends[1].player_id = D
        /\ Len(ofOthers) <= n - 1
        /\ \A i \in DOMAIN ofOthers :
             i <= n - 1 =>
               ofOthers[i].player_id = room_players[((findIndex(room_players, D) + i - 1) % n) + 1]
        /\ rooms.status = "finished" => Len(ofOthers) = n - 1
        /\ (Len(ofOthers) = n - 1 /\ reqs = EmptyBag) => rooms.status = "finished"

\* an action the page of player p offers: a click on the deck, on the discard
\* pile or on a hand card that its handler lets through, or the Descartar
\* button
C38_Offered(p) ==
  \/ CanClick(p) /\ drawnCard[p] = NoDrawn /\ gameState[p].deckCount # 0
  \/ CanClick(p) /\ drawnCard[p] = NoDrawn /\ gameState[p].discardTop # NoCard
  \/ CanClick(p) /\ drawnCard[p] # NoDrawn
  \/ GameBoard(p) /\ drawnCard[p] # NoDrawn

\* something is under way that will change what the page of player p offers:
\* a request or a callDutch not yet over, or a refresh the page has yet to make
C38_Pending(p) ==
  \/ reqs # EmptyBag
  \/ \E q \in Players : dutchPc[q] # "idle"
  \/ room[p] # RoomData(rooms)
  \/ gameState[p] # GameStateData(p, safeGameState(p, game_state))

\* C38: after a Dutch call, when every player whose turn it is keeps taking
\* the actions the page offers (draw, then swap or discard), the game
\* eventually reaches phase finished and status finished (or the gestures of
\* the run are used up); and with status playing the current player is never
\* left with no action offered and nothing under way.
C38_DutchRoundEnds ==
  /\ [](\A p \in Players :
          (/\ rooms.status = "playing" /\ rooms.dutch_caller # NoPlayer
           /\ rooms.current_turn = p /\ InRoom(p))
          => C38_Offered(p) \/ C38_Pending(p))
  /\ (rooms.dutch_caller # NoPlayer)
       ~> (\/ rooms.status = "finished" /\ game_state.phase = "finished"
           \/ clicks >= MaxClicks)

\* C39: once rooms.status is finished it stays finished, and a draw, swap or
\* discard request that game-action takes up from then on, whoever sent it,
\* is answered with an error and changes nothing: the deck, the discard pile,
\* the hands, the phase, current_turn and status stay as they were.
C39_FinishedIsTerminal ==
  [][rooms.status = "finished"
       => /\ rooms'.status = "finished"
          /\ \A r \in InFlight :
               (r.pc = "guard" /\ CopiesIn(r, reqs') < CopiesIn(r, reqs))
               => /\ response' \in {"not_playing", "not_your_turn", "not_a_member"}
                  /\ reqs' = Remove(r)
                  /\ game_state' = game_state
                  /\ rooms' = rooms
                  /\ game_actions' = game_actions
                  /\ drawnCard' = drawnCard]_vars

\* the game is over, phase and status, and the request the current player
\* sent after that was just refused
C39_Witness ==
  /\ rooms.status = "finished"
  /\ game_state.exists /\ game_state.phase = "finished"
  /\ response = "not_playing"
  /\ reqs = EmptyBag
  /\ Len(game_actions) > 0

====
